---- MODULE Spec2Model ----
(***************************************************************************)
(* A model of lwtensor: the tensor core (tensor.h), the vector layer       *)
(* (vector.h) and the matrix layer (matrix.h).                             *)
(*                                                                         *)
(* The C heap is modelled explicitly: every malloc creates a block, every  *)
(* free releases one, and a Tensor is the C struct of two block addresses  *)
(* and a rank.  Each library function is an operator that takes the        *)
(* machine state and returns the machine state after the call together     *)
(* with the value the function returns.  ttype (double by default) is      *)
(* modelled by exact rationals extended with +inf, -inf and NaN, which is  *)
(* exact for the small integer inputs drawn here.                          *)
(***************************************************************************)
EXTENDS Integers, Sequences, FiniteSets, TLC

(***************************************************************************)
(* Bounds of the model.                                                    *)
(***************************************************************************)
\* largest extent of an axis of the tensors the callers construct
MaxDim == 2
\* largest rank of the tensors the general caller constructs
MaxRank == 2
\* largest rank of the tensors the element-access caller constructs
AccessRank == 3
\* number of set_value/get_value calls of the element-access caller
MaxAccess == 1
\* largest component buffer of the element-access caller
MaxCells == 8
\* largest identity matrix the matrix caller builds
MaxN == 3
\* number of set_value calls the matrix caller makes on its matrix
MaxSets == 2
\* largest size of the determinant caller's matrix
DetN == 4
\* number of entries the determinant caller overwrites
DetSets == 1

(***************************************************************************)
(* ttype: rationals n/d in lowest terms with d > 0, and the IEEE specials  *)
(* +inf = 1/0, -inf = -1/0, NaN = 0/0.                                     *)
(***************************************************************************)
Abs(x) == IF x < 0 THEN -x ELSE x

Sgn(x) == IF x < 0 THEN -1 ELSE IF x > 0 THEN 1 ELSE 0

RECURSIVE Gcd(_, _)
Gcd(a, b) == IF b = 0 THEN a ELSE Gcd(b, a % b)

Q(n, d) ==
    IF d = 0 THEN [n |-> Sgn(n), d |-> 0]
    ELSE LET g == Gcd(Abs(n), Abs(d))
             s == Sgn(d)
         IN  [n |-> (s * n) \div g, d |-> (s * d) \div g]

\* the conversion of a C int to ttype
FromInt(i) == [n |-> i, d |-> 1]

Zero == FromInt(0)

One == FromInt(1)

NaN == [n |-> 0, d |-> 0]

IsFinite(a) == a.d # 0

RAdd(a, b) ==
    IF a.d = 0 /\ b.d = 0 THEN (IF a.n = b.n THEN a ELSE NaN)
    ELSE Q(a.n * b.d + b.n * a.d, a.d * b.d)

RNeg(a) == [n |-> -a.n, d |-> a.d]

RSub(a, b) == RAdd(a, RNeg(b))

RMul(a, b) == Q(a.n * b.n, a.d * b.d)

RDiv(a, b) == Q(a.n * b.d * (IF b.n < 0 THEN -1 ELSE 1), a.d * Abs(b.n))

IsSquare(k) == \E s \in 0..k : s * s = k

ISqrt(k) == CHOOSE s \in 0..k : s * s = k

\* sqrt() on the values whose root is rational; the callers draw only those
HasSqrt(a) == a.d = 0 \/ (a.n >= 0 /\ IsSquare(a.n) /\ IsSquare(a.d))

RSqrt(a) ==
    IF a.d = 0 THEN (IF a.n = 1 THEN a ELSE NaN)
    ELSE Q(ISqrt(a.n), ISqrt(a.d))

(***************************************************************************)
(* Sequencing.  Then(x, Op) is Op applied to the value of x: the C         *)
(* statement "T v = x;" followed by the statements Op(v).  The value is    *)
(* computed once, however often Op uses it.                                *)
(***************************************************************************)
Then(x, Op(_)) == CHOOSE r \in {Op(v) : v \in {x}} : TRUE

(***************************************************************************)
(* The heap.  mem[p] is the block at address p: live or not, and its       *)
(* elements.  dfree records a free() of an address that is not live, oob   *)
(* an access outside the block addressed.  An out-of-range read yields     *)
(* junk and an out-of-range write lands on victim (a cell of some live     *)
(* block, or nowhere): both are chosen by the environment for each call.   *)
(***************************************************************************)
NoVictim == <<0, 0>>

EmptyHeap ==
    [mem |-> <<>>, dfree |-> FALSE, oob |-> FALSE, junk |-> Zero,
     victim |-> NoVictim]

Live(m) == {p \in 1..Len(m.mem) : m.mem[p].live}

Min(S) == CHOOSE x \in S : \A y \in S : x <= y

Max(S) == CHOOSE x \in S : \A y \in S : x >= y

\* malloc, with the block's contents after the caller's initialising loop
Malloc(m, data) ==
    LET free == (1..Len(m.mem)) \ Live(m)
        p == IF free = {} THEN Len(m.mem) + 1 ELSE Min(free)
        blk == [live |-> TRUE, data |-> data]
    IN  [m |-> [m EXCEPT !.mem = IF p > Len(@) THEN Append(@, blk)
                                  ELSE [@ EXCEPT ![p] = blk]],
         p |-> p]

Free(m, p) ==
    IF p \in Live(m)
    THEN LET dead == [m.mem EXCEPT ![p] = [live |-> FALSE, data |-> <<>>]]
             keep == {q \in 1..Len(dead) : dead[q].live}
             top == IF keep = {} THEN 0 ELSE Max(keep)
         IN  [m EXCEPT !.mem = SubSeq(dead, 1, top)]
    ELSE [m EXCEPT !.dfree = TRUE]

InBuf(m, p, i) == p \in Live(m) /\ i >= 0 /\ i < Len(m.mem[p].data)

Read(m, p, i) == IF InBuf(m, p, i) THEN m.mem[p].data[i + 1] ELSE m.junk

Write(m, p, i, v) ==
    IF InBuf(m, p, i) THEN [m EXCEPT !.mem[p].data[i + 1] = v]
    ELSE IF InBuf(m, m.victim[1], m.victim[2])
    THEN [m EXCEPT !.oob = TRUE, !.mem[m.victim[1]].data[m.victim[2] + 1] = v]
    ELSE [m EXCEPT !.oob = TRUE]

\* for(i = 0; i < k; i ++) p[i] = vals[i]: the writes inside the block, and
\* then the stray ones, of which the last is the one that stays
WriteAll(m, p, vals, k) ==
    LET n == IF p \in Live(m) THEN Len(m.mem[p].data) ELSE 0
        inside == IF n = 0 THEN m
                  ELSE [m EXCEPT !.mem[p].data =
                           [i \in 1..n |-> IF i <= k THEN vals[i] ELSE @[i]]]
    IN  IF k <= n THEN inside ELSE Write(inside, p, k - 1, vals[k])

RECURSIVE Prod(_)
Prod(s) == IF s = <<>> THEN 1 ELSE s[1] * Prod(Tail(s))

Zeros(n) == [i \in 1..n |-> Zero]

(***************************************************************************)
(* tensor.h                                                                *)
(***************************************************************************)
Tensor(shape, components, rank) ==
    [shape |-> shape, components |-> components, rank |-> rank]

\* the shape array of a tensor, read from the heap
ShapeOf(m, t) == [i \in 1..t.rank |-> Read(m, t.shape, i - 1)]

\* create_tensor with the component buffer one element short
create_tensor_short(m, rank, dims) ==
    Then(Malloc(m, SubSeq(dims, 1, rank)), LAMBDA a :
    Then(Malloc(a.m, Zeros(Prod(SubSeq(dims, 1, rank)) - 1)), LAMBDA b :
        [m |-> b.m, t |-> Tensor(a.p, b.p, rank)]))

create_tensor(m, rank, dims) ==
    Then(Malloc(m, SubSeq(dims, 1, rank)), LAMBDA a :
    Then(Malloc(a.m, Zeros(Prod(SubSeq(dims, 1, rank)))), LAMBDA b :
        [m |-> b.m, t |-> Tensor(a.p, b.p, rank)]))

create_tensor_byptr(m, rank, shape) ==
    Then(Malloc(m, Zeros(Prod([i \in 1..rank |-> Read(m, shape, i - 1)]))), LAMBDA b :
        [m |-> b.m, t |-> Tensor(shape, b.p, rank)])

create_copy(m, tensor) ==
    Then(ShapeOf(m, tensor), LAMBDA s :
    Then(Malloc(m, s), LAMBDA a :
    Then(Malloc(a.m, [i \in 1..Prod(s) |-> Read(a.m, tensor.components, i - 1)]), LAMBDA b :
        [m |-> b.m, t |-> Tensor(a.p, b.p, tensor.rank)])))

\* index = sum over i < rank of idx[i] * shape[0] * ... * shape[i-1]
RECURSIVE Offset(_, _, _, _)
\* row-major addressing: the last axis has stride 1
Offset_rowmajor(m, t, idx, k) ==
    IF k = 0 THEN 0
    ELSE Offset(m, t, idx, k - 1) * Read(m, t.shape, k - 1) + idx[k]

Offset(m, t, idx, k) ==
    IF k = 0 THEN 0
    ELSE Offset(m, t, idx, k - 1)
         + idx[k] * Prod([j \in 1..(k - 1) |-> Read(m, t.shape, j - 1)])

set_value(m, tensor, value, idx) ==
    Write(m, tensor.components, Offset(m, tensor, idx, tensor.rank), value)

get_value(m, tensor, idx) ==
    Read(m, tensor.components, Offset(m, tensor, idx, tensor.rank))

get_length(m, tensor) == Prod(ShapeOf(m, tensor))

\* the prologue shared by the element-wise functions: a fresh copy of
\* lhs.shape and the number of components
copy_shape(m, lhs) ==
    Then(ShapeOf(m, lhs), LAMBDA s :
    Then(Malloc(m, s), LAMBDA a :
        [m |-> a.m, shape |-> a.p, length |-> Prod(s)]))

\* the loop shared by the element-wise functions: a tensor over the copied
\* shape whose component i is vals[i]
elementwise(c, rank, vals) ==
    Then(create_tensor_byptr(c.m, rank, c.shape), LAMBDA r :
        [m |-> WriteAll(r.m, r.t.components, vals, c.length), t |-> r.t])

sum(m, lhs, rhs) ==
    Then(copy_shape(m, lhs), LAMBDA c :
        elementwise(c, lhs.rank,
            [i \in 1..c.length |->
                RAdd(Read(m, lhs.components, i - 1), Read(m, rhs.components, i - 1))]))

sum_scalar(m, lhs, scalar) ==
    Then(copy_shape(m, lhs), LAMBDA c :
        elementwise(c, lhs.rank,
            [i \in 1..c.length |-> RAdd(Read(m, lhs.components, i - 1), scalar)]))

subtract(m, lhs, rhs) ==
    Then(copy_shape(m, lhs), LAMBDA c :
        elementwise(c, lhs.rank,
            [i \in 1..c.length |->
                RSub(Read(m, lhs.components, i - 1), Read(m, rhs.components, i - 1))]))

subtract_scalar(m, lhs, scalar) ==
    Then(copy_shape(m, lhs), LAMBDA c :
        elementwise(c, lhs.rank,
            [i \in 1..c.length |-> RSub(Read(m, lhs.components, i - 1), scalar)]))

divide(m, lhs, rhs) ==
    Then(copy_shape(m, lhs), LAMBDA c :
        elementwise(c, lhs.rank,
            [i \in 1..c.length |->
                RDiv(Read(m, lhs.components, i - 1), Read(m, rhs.components, i - 1))]))

divide_scalar(m, lhs, scalar) ==
    Then(copy_shape(m, lhs), LAMBDA c :
        elementwise(c, lhs.rank,
            [i \in 1..c.length |-> RDiv(Read(m, lhs.components, i - 1), scalar)]))

hadamard(m, lhs, rhs) ==
    Then(copy_shape(m, lhs), LAMBDA c :
        elementwise(c, lhs.rank,
            [i \in 1..c.length |->
                RMul(Read(m, lhs.components, i - 1), Read(m, rhs.components, i - 1))]))

\* sum = 0.0; for(i ...) sum += s[i]
RECURSIVE SumSeq(_)
SumSeq(s) ==
    IF s = <<>> THEN Zero ELSE RAdd(SumSeq(SubSeq(s, 1, Len(s) - 1)), s[Len(s)])

\* dot allocates a copy of lhs.shape that it never frees
dot(m, lhs, rhs) ==
    Then(copy_shape(m, lhs), LAMBDA c :
        [m |-> c.m,
         v |-> SumSeq([i \in 1..c.length |->
                          RMul(Read(m, lhs.components, i - 1),
                               Read(m, rhs.components, i - 1))])])

product_scalar(m, lhs, scalar) ==
    Then(copy_shape(m, lhs), LAMBDA c :
        elementwise(c, lhs.rank,
            [i \in 1..c.length |-> RMul(Read(m, lhs.components, i - 1), scalar)]))

destroy_tensor(m, tensor) ==
    Then(Free(m, tensor.shape), LAMBDA f : Free(f, tensor.components))

(***************************************************************************)
(* vector.h                                                                *)
(***************************************************************************)
create_vector(m, n) == create_tensor(m, 1, <<n>>)

create_vector_from(m, vec) ==
    Then(create_tensor(m, 1, <<3>>), LAMBDA r :
        [m |-> WriteAll(r.m, r.t.components, vec, 3), t |-> r.t])

norm(m, vec) ==
    RSqrt(SumSeq([i \in 1..Read(m, vec.shape, 0) |->
                    RMul(Read(m, vec.components, i - 1), Read(m, vec.components, i - 1))]))

normalize(m, vec) ==
    Then(norm(m, vec), LAMBDA modulo :
    Then(create_copy(m, vec), LAMBDA r :
    Then([i \in 1..Read(r.m, r.t.shape, 0) |->
             RDiv(Read(r.m, r.t.components, i - 1), modulo)], LAMBDA vals :
        [m |-> WriteAll(r.m, r.t.components, vals, Len(vals)), t |-> r.t])))

cross(m, u, v) ==
    Then(create_vector(m, Read(m, u.shape, 0)), LAMBDA r :
        LET U(i) == Read(m, u.components, i)
            V(i) == Read(m, v.components, i)
            vals == << RSub(RMul(U(1), V(2)), RMul(U(2), V(1))),
                       RSub(RMul(U(2), V(0)), RMul(U(0), V(2))),
                       RSub(RMul(U(0), V(1)), RMul(U(1), V(0))) >>
        IN  [m |-> WriteAll(r.m, r.t.components, vals, 3), t |-> r.t])

(***************************************************************************)
(* matrix.h                                                                *)
(***************************************************************************)
create_matrix(m, rows, cols) == create_tensor(m, 2, <<rows, cols>>)

\* the writes of create_indentity: set_value(matrix, 1.0, c, c) for c < k
RECURSIVE identity_loop(_, _, _)
identity_loop(m, matrix, k) ==
    IF k = 0 THEN m
    ELSE Then(identity_loop(m, matrix, k - 1), LAMBDA pm :
             set_value(pm, matrix, One, <<k - 1, k - 1>>))

create_indentity(m, n) ==
    Then(create_matrix(m, n, n), LAMBDA r :
        [m |-> identity_loop(r.m, r.t, n), t |-> r.t])

\* whether the flat offset get_value/set_value computes is outside the buffer
OffBuf(m, t, idx) == ~InBuf(m, t.components, Offset(m, t, idx, t.rank))

\* one iteration of matmul's (r, c) loops on the machine state pm
matmul_step(pm, lhs, rhs, result, K, r, c) ==
    LET mir == SumSeq([k \in 1..K |->
                   RMul(get_value(pm, rhs, <<k - 1, r>>),
                        get_value(pm, lhs, <<c, k - 1>>))])
        stray == \E k \in 1..K : OffBuf(pm, rhs, <<k - 1, r>>)
                                 \/ OffBuf(pm, lhs, <<c, k - 1>>)
    IN  set_value([pm EXCEPT !.oob = @ \/ stray], result, mir, <<r, c>>)

\* the machine state after the first n iterations of matmul's (r, c) loops;
\* C = rhs.shape[1], K = lhs.shape[1]
RECURSIVE matmul_loop(_, _, _, _, _, _, _)
matmul_loop(m, lhs, rhs, result, C, K, n) ==
    IF n = 0 THEN m
    ELSE Then(matmul_loop(m, lhs, rhs, result, C, K, n - 1), LAMBDA pm :
             matmul_step(pm, lhs, rhs, result, K, (n - 1) \div C, (n - 1) % C))

matmul(m, lhs, rhs) ==
    Then(create_matrix(m, Read(m, rhs.shape, 1), Read(m, lhs.shape, 0)), LAMBDA res :
        [m |-> matmul_loop(res.m, lhs, rhs, res.t, Read(m, rhs.shape, 1),
                           Read(m, lhs.shape, 1),
                           Read(m, lhs.shape, 0) * Read(m, rhs.shape, 1)),
         t |-> res.t])

\* the body of transform's loop for row r, on the machine state pm
transform_row(pm, vec, matrix, vector, r) ==
    Then(create_vector(pm, Read(pm, matrix.shape, 1)), LAMBDA row :
    Then([c \in 1..Read(pm, matrix.shape, 1) |-> get_value(pm, matrix, <<r, c - 1>>)],
         LAMBDA vals :
    Then(WriteAll(row.m, row.t.components, vals, Len(vals)), LAMBDA filled :
    Then(dot(filled, row.t, vec), LAMBDA d :
    Then(Write(d.m, vector.components, r, d.v), LAMBDA stored :
        destroy_tensor(stored, row.t))))))

RECURSIVE transform_loop(_, _, _, _, _)
transform_loop(m, vec, matrix, vector, n) ==
    IF n = 0 THEN m
    ELSE Then(transform_loop(m, vec, matrix, vector, n - 1), LAMBDA pm :
             transform_row(pm, vec, matrix, vector, n - 1))

transform(m, vec, matrix) ==
    Then(create_vector(m, Read(m, vec.shape, 0)), LAMBDA res :
        [m |-> transform_loop(res.m, vec, matrix, res.t, Read(m, matrix.shape, 0)),
         t |-> res.t])

\* the machine state after the first n iterations of transpose's (r, c)
\* loops; C = matrix.shape[1]
RECURSIVE transpose_loop(_, _, _, _, _)
transpose_loop(m, matrix, result, C, n) ==
    IF n = 0 THEN m
    ELSE Then(transpose_loop(m, matrix, result, C, n - 1), LAMBDA pm :
             set_value(pm, result,
                       get_value(pm, matrix, <<(n - 1) \div C, (n - 1) % C>>),
                       <<(n - 1) % C, (n - 1) \div C>>))

\* a result of the operand's shape instead of the reversed one
transpose_sameshape(m, matrix) ==
    Then(create_matrix(m, Read(m, matrix.shape, 0), Read(m, matrix.shape, 1)), LAMBDA res :
        [m |-> transpose_loop(res.m, matrix, res.t, Read(m, matrix.shape, 1),
                              Read(m, matrix.shape, 0) * Read(m, matrix.shape, 1)),
         t |-> res.t])

transpose(m, matrix) ==
    Then(create_matrix(m, Read(m, matrix.shape, 1), Read(m, matrix.shape, 0)), LAMBDA res :
        [m |-> transpose_loop(res.m, matrix, res.t, Read(m, matrix.shape, 1),
                              Read(m, matrix.shape, 0) * Read(m, matrix.shape, 1)),
         t |-> res.t])

\* the entries minor keeps, in the order its loops meet them (r outer, c
\* inner); C = matrix.shape[1]
RECURSIVE minor_kept(_, _, _, _, _, _)
minor_kept(m, matrix, row, col, C, n) ==
    IF n = 0 THEN <<>>
    ELSE Then(minor_kept(m, matrix, row, col, C, n - 1), LAMBDA before :
             IF row # (n - 1) \div C /\ col # (n - 1) % C
             THEN Append(before, get_value(m, matrix, <<(n - 1) \div C, (n - 1) % C>>))
             ELSE before)

\* (int) pow(-1.0, row + col)
sign(row, col) == IF (row + col) % 2 = 0 THEN 1 ELSE -1

RECURSIVE determinant(_, _)
RECURSIVE minor(_, _, _, _)
RECURSIVE cofactor(_, _, _, _)
RECURSIVE determinant_loop(_, _, _)

minor(m, matrix, row, col) ==
    Then(create_matrix(m, Read(m, matrix.shape, 1) - 1, Read(m, matrix.shape, 1) - 1),
         LAMBDA sub :
    Then(minor_kept(sub.m, matrix, row, col, Read(m, matrix.shape, 1),
                    Read(m, matrix.shape, 0) * Read(m, matrix.shape, 1)), LAMBDA kept :
    Then(WriteAll(sub.m, sub.t.components, kept, Len(kept)), LAMBDA filled :
    Then(determinant(filled, sub.t), LAMBDA det :
        [m |-> destroy_tensor(det.m, sub.t), v |-> det.v]))))

cofactor(m, matrix, row, col) ==
    Then(minor(m, matrix, row, col), LAMBDA mn :
        [m |-> mn.m, v |-> RMul(FromInt(sign(row, col)), mn.v)])

\* the expansion with every term added, the sign of the cofactor dropped
determinant_loop_unsigned(m, matrix, n) ==
    IF n = 0 THEN [m |-> m, v |-> Zero]
    ELSE Then(determinant_loop(m, matrix, n - 1), LAMBDA prev :
         Then(minor(prev.m, matrix, n - 1, 0), LAMBDA mn :
             [m |-> mn.m,
              v |-> RAdd(prev.v, RMul(get_value(mn.m, matrix, <<n - 1, 0>>), mn.v))]))

\* the machine state and the running result after the first n rows of the
\* expansion along column 0
determinant_loop(m, matrix, n) ==
    IF n = 0 THEN [m |-> m, v |-> Zero]
    ELSE Then(determinant_loop(m, matrix, n - 1), LAMBDA prev :
         Then(cofactor(prev.m, matrix, n - 1, 0), LAMBDA cof :
             [m |-> cof.m,
              v |-> RAdd(prev.v, RMul(get_value(cof.m, matrix, <<n - 1, 0>>), cof.v))]))

determinant(m, matrix) ==
    IF Read(m, matrix.shape, 0) # Read(m, matrix.shape, 1)
    THEN [m |-> m, v |-> Zero]
    ELSE IF Read(m, matrix.shape, 1) = 2
    THEN [m |-> m,
          v |-> RSub(RMul(get_value(m, matrix, <<0, 0>>), get_value(m, matrix, <<1, 1>>)),
                     RMul(get_value(m, matrix, <<1, 0>>), get_value(m, matrix, <<0, 1>>)))]
    ELSE determinant_loop(m, matrix, Read(m, matrix.shape, 0))

\* the machine state after the first n iterations of cofactor_matrix's
\* (r, c) loops; C = matrix.shape[1]
RECURSIVE cofactor_matrix_loop(_, _, _, _, _)
cofactor_matrix_loop(m, matrix, cof_matrix, C, n) ==
    IF n = 0 THEN m
    ELSE Then(cofactor_matrix_loop(m, matrix, cof_matrix, C, n - 1), LAMBDA pm :
         Then(cofactor(pm, matrix, (n - 1) \div C, (n - 1) % C), LAMBDA cof :
             set_value(cof.m, cof_matrix, cof.v, <<(n - 1) \div C, (n - 1) % C>>)))

cofactor_matrix(m, matrix) ==
    Then(create_matrix(m, Read(m, matrix.shape, 0), Read(m, matrix.shape, 1)), LAMBDA res :
        [m |-> cofactor_matrix_loop(res.m, matrix, res.t, Read(m, matrix.shape, 1),
                                    Read(m, matrix.shape, 0) * Read(m, matrix.shape, 1)),
         t |-> res.t])

\* cof_matrix is not destroyed
adjugate_matrix(m, matrix) ==
    Then(cofactor_matrix(m, matrix), LAMBDA cof_matrix :
        transpose(cof_matrix.m, cof_matrix.t))

\* the tensor product_scalar returns is dropped: inv is returned unscaled
inverse(m, matrix) ==
    Then(determinant(m, matrix), LAMBDA det :
    Then(adjugate_matrix(det.m, matrix), LAMBDA inv :
    Then(product_scalar(inv.m, inv.t, RDiv(One, det.v)), LAMBDA scaled :
        [m |-> scaled.m, t |-> inv.t])))

(***************************************************************************)
(* The calling program.  pool holds the Tensor structs the caller owns,    *)
(* in the order it obtained them; last records the latest library call     *)
(* other than a release: its name, its operands (positions in pool), its   *)
(* index and scalar                                                        *)
(* arguments, what it returned (ret a ttype, res the position in pool of a *)
(* returned tensor) and the machine state before the call; left is the    *)
(* number of library calls the caller will still make before it releases   *)
(* what it holds.                                                          *)
(***************************************************************************)
VARIABLES heap, pool, last, left

vars == <<heap, pool, last, left>>

NoCall ==
    [op |-> "none", a |-> 0, b |-> 0, idx |-> <<>>, val |-> Zero, ret |-> Zero,
     res |-> 0, pre |-> EmptyHeap]

\* values the callers write and pass as scalars
SetValues == {FromInt(-1), FromInt(2), FromInt(3)}

Scalars == {Zero, FromInt(-1), FromInt(2)}

\* the contents the callers give their operands: all zero (as constructed),
\* 1, 2, 3, ... and 3, -4, 5, -6, ...
Fills == {0, 1, 2}

Fill(f, p) ==
    IF f = 0 THEN Zero
    ELSE IF f = 1 THEN FromInt(p + 1)
    ELSE FromInt(IF p % 2 = 0 THEN p + 3 ELSE -(p + 3))

Shapes == UNION {[1..r -> 0..MaxDim] : r \in 0..MaxRank}

\* the multi-indices inside a shape
Indices(s) == {idx \in [1..Len(s) -> 0..MaxDim + 1] : \A k \in 1..Len(s) : idx[k] < s[k]}

\* a tensor constructed by create_tensor and filled through its components
Build(m, dims, vals) ==
    LET r == create_tensor(m, Len(dims), dims)
    IN  [m |-> WriteAll(r.m, r.t.components, vals, Len(vals)), t |-> r.t]

Filled(m, dims, f) == Build(m, dims, [p \in 1..Prod(dims) |-> Fill(f, p - 1)])

\* the operand pairs of the general caller: two tensors of one shape, two
\* matrices matmul accepts, a vector and a matrix transform accepts, and
\* two 3-D vectors
OperandShapes ==
    {<<s, s>> : s \in Shapes}
    \cup {<< <<a, b>>, <<b, d>> >> : a \in 0..MaxDim, b \in 0..MaxDim, d \in 0..MaxDim}
    \cup {<< <<b>>, <<a, b>> >> : a \in 0..MaxDim, b \in 0..MaxDim}
    \cup {<< <<3>>, <<3>> >>}

\* the general caller starts empty-handed, to construct a tensor, or with
\* two operands for one call
Init ==
    \/ /\ heap = EmptyHeap
       /\ pool = <<>>
       /\ last = NoCall
       /\ left = 1
    \/ \E pr \in OperandShapes, fa \in Fills, fb \in Fills :
           LET A == Filled(EmptyHeap, pr[1], fa)
               B == Filled(A.m, pr[2], fb)
           IN  /\ heap = B.m
               /\ pool = <<A.t, B.t>>
               /\ last = NoCall
               /\ left = 1

\* the environment's choices for one call: what a stray read yields and
\* where a stray write lands
Cells(m) == {c \in UNION {{<<p, i>> : i \in 0..Len(m.mem[p].data) - 1} : p \in Live(m)} : TRUE}

ComponentCells(m) == {c \in Cells(m) : \E i \in 1..Len(pool) : pool[i].components = c[1]}

Env(m, junk, victim) == [m EXCEPT !.junk = junk, !.victim = victim]

Settle(m) == [m EXCEPT !.junk = Zero, !.victim = NoVictim]

Call(op, a, b, idx, val) ==
    [op |-> op, a |-> a, b |-> b, idx |-> idx, val |-> val, ret |-> Zero,
     res |-> 0, pre |-> heap]

\* a call that returns a tensor, which the caller keeps
ReturnTensor(call, r) ==
    /\ heap' = Settle(r.m)
    /\ pool' = Append(pool, r.t)
    /\ last' = [call EXCEPT !.res = Len(pool) + 1]
    /\ left' = left - 1

\* a call that returns a ttype
ReturnValue(call, m, v) ==
    /\ heap' = Settle(m)
    /\ pool' = pool
    /\ last' = [call EXCEPT !.ret = v]
    /\ left' = left - 1

Rank(i) == pool[i].rank

Shape(i) == ShapeOf(heap, pool[i])

SameShape(i, j) == Rank(i) = Rank(j) /\ Shape(i) = Shape(j)

IsMatrix(i) == Rank(i) = 2

IsVector(i) == Rank(i) = 1

IsSquare2(i) == IsMatrix(i) /\ Shape(i)[1] = Shape(i)[2]

Held == 1..Len(pool)

(***************************************************************************)
(* One action per library function.  The callers construct a tensor only   *)
(* while they hold none: what a constructor does depends on no tensor      *)
(* that exists already.                                                    *)
(***************************************************************************)
CreateTensor ==
    /\ left > 0
    /\ pool = <<>>
    /\ \E s \in Shapes :
        ReturnTensor(Call("create_tensor", 0, 0, s, Zero), create_tensor(heap, Len(s), s))

\* the caller allocates the shape array and hands it over
CreateTensorByPtr ==
    /\ left > 0
    /\ pool = <<>>
    /\ \E s \in Shapes :
        LET a == Malloc(heap, s)
        IN  ReturnTensor(Call("create_tensor_byptr", 0, 0, s, Zero),
                         create_tensor_byptr(a.m, Len(s), a.p))

CreateCopy ==
    /\ left > 0
    /\ \E i \in Held :
        ReturnTensor(Call("create_copy", i, 0, <<>>, Zero), create_copy(heap, pool[i]))

SetValue ==
    /\ left > 0
    /\ \E i \in Held, v \in SetValues :
        \E idx \in Indices(Shape(i)) :
            ReturnValue(Call("set_value", i, 0, idx, v),
                        set_value(heap, pool[i], v, idx), Zero)

GetValue ==
    /\ left > 0
    /\ \E i \in Held :
        \E idx \in Indices(Shape(i)) :
            ReturnValue(Call("get_value", i, 0, idx, Zero),
                        heap, get_value(heap, pool[i], idx))

GetLength ==
    /\ left > 0
    /\ \E i \in Held :
        ReturnValue(Call("get_length", i, 0, <<>>, Zero),
                    heap, FromInt(get_length(heap, pool[i])))

Sum ==
    /\ left > 0
    /\ \E i \in Held, j \in Held :
        /\ SameShape(i, j)
        /\ ReturnTensor(Call("sum", i, j, <<>>, Zero), sum(heap, pool[i], pool[j]))

SumScalar ==
    /\ left > 0
    /\ \E i \in Held, x \in Scalars :
        ReturnTensor(Call("sum_scalar", i, 0, <<>>, x), sum_scalar(heap, pool[i], x))

Subtract ==
    /\ left > 0
    /\ \E i \in Held, j \in Held :
        /\ SameShape(i, j)
        /\ ReturnTensor(Call("subtract", i, j, <<>>, Zero),
                        subtract(heap, pool[i], pool[j]))

SubtractScalar ==
    /\ left > 0
    /\ \E i \in Held, x \in Scalars :
        ReturnTensor(Call("subtract_scalar", i, 0, <<>>, x),
                     subtract_scalar(heap, pool[i], x))

Divide ==
    /\ left > 0
    /\ \E i \in Held, j \in Held :
        /\ SameShape(i, j)
        /\ ReturnTensor(Call("divide", i, j, <<>>, Zero), divide(heap, pool[i], pool[j]))

DivideScalar ==
    /\ left > 0
    /\ \E i \in Held, x \in Scalars :
        ReturnTensor(Call("divide_scalar", i, 0, <<>>, x),
                     divide_scalar(heap, pool[i], x))

Hadamard ==
    /\ left > 0
    /\ \E i \in Held, j \in Held :
        /\ SameShape(i, j)
        /\ ReturnTensor(Call("hadamard", i, j, <<>>, Zero),
                        hadamard(heap, pool[i], pool[j]))

Dot ==
    /\ left > 0
    /\ \E i \in Held, j \in Held :
        /\ SameShape(i, j)
        /\ LET d == dot(heap, pool[i], pool[j])
           IN  ReturnValue(Call("dot", i, j, <<>>, Zero), d.m, d.v)

ProductScalar ==
    /\ left > 0
    /\ \E i \in Held, x \in Scalars :
        ReturnTensor(Call("product_scalar", i, 0, <<>>, x),
                     product_scalar(heap, pool[i], x))

\* the caller releases the tensor it obtained last
DestroyTensor ==
    /\ left = 0
    /\ pool # <<>>
    /\ heap' = destroy_tensor(heap, pool[Len(pool)])
    /\ pool' = SubSeq(pool, 1, Len(pool) - 1)
    /\ UNCHANGED <<last, left>>

CreateVector ==
    /\ left > 0
    /\ pool = <<>>
    /\ \E n \in 0..MaxDim :
        ReturnTensor(Call("create_vector", 0, 0, <<n>>, Zero), create_vector(heap, n))

CreateVectorFrom ==
    /\ left > 0
    /\ pool = <<>>
    /\ \E f \in Fills :
        ReturnTensor(Call("create_vector_from", 0, 0, <<f>>, Zero),
                     create_vector_from(heap, [p \in 1..3 |-> Fill(f, p - 1)]))

\* the sum of squares whose root norm takes
SquareSum(i) ==
    SumSeq([p \in 1..Shape(i)[1] |->
              RMul(Read(heap, pool[i].components, p - 1),
                   Read(heap, pool[i].components, p - 1))])

Norm ==
    /\ left > 0
    /\ \E i \in Held :
        /\ IsVector(i)
        /\ HasSqrt(SquareSum(i))
        /\ ReturnValue(Call("norm", i, 0, <<>>, Zero), heap, norm(heap, pool[i]))

Normalize ==
    /\ left > 0
    /\ \E i \in Held :
        /\ IsVector(i)
        /\ HasSqrt(SquareSum(i))
        /\ ReturnTensor(Call("normalize", i, 0, <<>>, Zero), normalize(heap, pool[i]))

Cross ==
    /\ left > 0
    /\ \E i \in Held, j \in Held :
        /\ IsVector(i) /\ IsVector(j)
        /\ Shape(i) = <<3>> /\ Shape(j) = <<3>>
        /\ ReturnTensor(Call("cross", i, j, <<>>, Zero), cross(heap, pool[i], pool[j]))

CreateMatrix ==
    /\ left > 0
    /\ pool = <<>>
    /\ \E r \in 0..MaxDim, c \in 0..MaxDim :
        ReturnTensor(Call("create_matrix", 0, 0, <<r, c>>, Zero),
                     create_matrix(heap, r, c))

CreateIdentity ==
    /\ left > 0
    /\ pool = <<>>
    /\ \E n \in 0..MaxN :
        ReturnTensor(Call("create_indentity", 0, 0, <<n>>, Zero),
                     create_indentity(heap, n))

MatMul ==
    /\ left > 0
    /\ \E i \in Held, j \in Held :
        /\ IsMatrix(i) /\ IsMatrix(j)
        /\ Shape(i)[2] = Shape(j)[1]
        /\ \E junk \in Scalars, victim \in ComponentCells(heap) \cup {NoVictim} :
               ReturnTensor(Call("matmul", i, j, <<>>, Zero),
                            matmul(Env(heap, junk, victim), pool[i], pool[j]))

Transform ==
    /\ left > 0
    /\ \E i \in Held, j \in Held :
        /\ IsVector(i) /\ IsMatrix(j)
        /\ Shape(j)[2] = Shape(i)[1]
        /\ \E junk \in Scalars, victim \in ComponentCells(heap) \cup {NoVictim} :
               ReturnTensor(Call("transform", i, j, <<>>, Zero),
                            transform(Env(heap, junk, victim), pool[i], pool[j]))

Transpose ==
    /\ left > 0
    /\ \E i \in Held :
        /\ IsMatrix(i)
        /\ ReturnTensor(Call("transpose", i, 0, <<>>, Zero), transpose(heap, pool[i]))

Minor ==
    /\ left > 0
    /\ \E i \in Held :
        /\ IsSquare2(i)
        /\ \E idx \in Indices(Shape(i)) :
               \E r \in {minor(heap, pool[i], idx[1], idx[2])} :
                   ReturnValue(Call("minor", i, 0, idx, Zero), r.m, r.v)

Cofactor ==
    /\ left > 0
    /\ \E i \in Held :
        /\ IsSquare2(i)
        /\ \E idx \in Indices(Shape(i)) :
               \E r \in {cofactor(heap, pool[i], idx[1], idx[2])} :
                   ReturnValue(Call("cofactor", i, 0, idx, Zero), r.m, r.v)

CofactorMatrix ==
    /\ left > 0
    /\ \E i \in Held :
        /\ IsSquare2(i)
        /\ ReturnTensor(Call("cofactor_matrix", i, 0, <<>>, Zero),
                        cofactor_matrix(heap, pool[i]))

AdjugateMatrix ==
    /\ left > 0
    /\ \E i \in Held :
        /\ IsSquare2(i)
        /\ ReturnTensor(Call("adjugate_matrix", i, 0, <<>>, Zero),
                        adjugate_matrix(heap, pool[i]))

Determinant ==
    /\ left > 0
    /\ \E i \in Held :
        /\ IsMatrix(i)
        /\ \E r \in {determinant(heap, pool[i])} :
               ReturnValue(Call("determinant", i, 0, <<>>, Zero), r.m, r.v)

Inverse ==
    /\ left > 0
    /\ \E i \in Held :
        /\ IsSquare2(i)
        /\ ReturnTensor(Call("inverse", i, 0, <<>>, Zero), inverse(heap, pool[i]))

(***************************************************************************)
(* Reading the caller's tensors.                                           *)
(***************************************************************************)
ShapeData(m, t) == m.mem[t.shape].data

Components(m, t) == m.mem[t.components].data

\* the blocks of the tensor are live and hold rank extents and
\* product(shape) components
WellFormed(m, t) ==
    /\ t.shape \in Live(m)
    /\ t.components \in Live(m)
    /\ t.shape # t.components
    /\ Len(ShapeData(m, t)) = t.rank
    /\ Len(Components(m, t)) = Prod(ShapeData(m, t))

Constructors == {"create_tensor", "create_tensor_byptr", "create_vector", "create_matrix"}

ArithmeticOps ==
    {"sum", "subtract", "divide", "hadamard", "sum_scalar", "subtract_scalar",
     "divide_scalar", "product_scalar", "normalize", "cross", "transpose",
     "matmul", "inverse"}

ScalarOps == {"sum_scalar", "subtract_scalar", "divide_scalar", "product_scalar"}

C7_OperandsKeptResultFresh ==
    (last.op \in ArithmeticOps /\ last.res \in Held) =>
        LET res == pool[last.res]
        IN  /\ \A i \in Held \ {last.res} :
                  /\ ShapeData(heap, pool[i]) = ShapeData(last.pre, pool[i])
                  /\ Components(heap, pool[i]) = Components(last.pre, pool[i])
                  /\ {res.shape, res.components}
                         \cap {pool[i].shape, pool[i].components} = {}
            /\ res.shape \notin Live(last.pre)
            /\ res.components \notin Live(last.pre)
            /\ res.shape # res.components
            /\ last.op \in ScalarOps =>
                  /\ res.rank = pool[last.a].rank
                  /\ ShapeData(heap, res) = ShapeData(last.pre, pool[last.a])

(***************************************************************************)
(* C6: once the caller has made a call to dot, minor, cofactor,            *)
(* cofactor_matrix, adjugate_matrix, determinant, transform or inverse and *)
(* has destroyed every tensor it holds, no heap block is live and no block *)
(* was freed twice.                                                        *)
(***************************************************************************)
ReleasingOps ==
    {"dot", "minor", "cofactor", "cofactor_matrix", "adjugate_matrix",
     "determinant", "transform", "inverse"}

C6_NothingLeftAllocated ==
    (last.op \in ReleasingOps /\ pool = <<>>) =>
        /\ Live(heap) = {}
        /\ ~heap.dfree

(***************************************************************************)
(* C4: matmul(lhs, rhs) with lhs.shape[1] = rhs.shape[0] returns a matrix  *)
(* of shape [rhs.shape[1], lhs.shape[0]] whose entry at every (r, c)       *)
(* inside that shape is the sum over k of                                  *)
(* get_value(rhs, k, r) * get_value(lhs, c, k).                            *)
(***************************************************************************)
C4_MatMulEntries ==
    (last.op = "matmul" /\ last.res \in Held) =>
        LET lhs == pool[last.a]
            rhs == pool[last.b]
            res == pool[last.res]
            ls  == ShapeData(last.pre, lhs)
            rs  == ShapeData(last.pre, rhs)
        IN  /\ ShapeData(heap, res) = <<rs[2], ls[1]>>
            /\ \A r \in 0..rs[2] - 1, c \in 0..ls[1] - 1 :
                  get_value(heap, res, <<r, c>>) =
                      SumSeq([k \in 1..ls[2] |->
                                 RMul(get_value(last.pre, rhs, <<k - 1, r>>),
                                      get_value(last.pre, lhs, <<c, k - 1>>))])

(***************************************************************************)
(* C5: transform(vec, matrix) with matrix.shape[1] = length(vec) returns a *)
(* vector of the length of vec in which, for every row r of the matrix,    *)
(* element r lies inside the buffer and is the sum over c of               *)
(* get_value(matrix, r, c) * vec[c].                                       *)
(***************************************************************************)
C5_TransformRows ==
    (last.op = "transform" /\ last.res \in Held) =>
        LET vec    == Components(last.pre, pool[last.a])
            matrix == pool[last.b]
            ms     == ShapeData(last.pre, matrix)
            out    == Components(heap, pool[last.res])
        IN  /\ Len(out) = Len(vec)
            /\ \A r \in 0..ms[1] - 1 :
                  /\ r < Len(out)
                  /\ out[r + 1] =
                         SumSeq([c \in 1..ms[2] |->
                                    RMul(get_value(last.pre, matrix, <<r, c - 1>>),
                                         vec[c])])

(***************************************************************************)
(* The general caller: it holds two operands, makes one library call on    *)
(* them and then releases every tensor it holds.                           *)
(***************************************************************************)
Next ==
    \/ CreateTensor \/ CreateTensorByPtr \/ CreateCopy \/ GetLength
    \/ Sum \/ SumScalar \/ Subtract \/ SubtractScalar
    \/ Divide \/ DivideScalar \/ Hadamard \/ Dot \/ ProductScalar
    \/ CreateVector \/ CreateVectorFrom \/ Norm \/ Normalize \/ Cross
    \/ CreateMatrix \/ CreateIdentity \/ MatMul \/ Transform \/ Transpose
    \/ Minor \/ Cofactor \/ CofactorMatrix \/ AdjugateMatrix
    \/ Determinant \/ Inverse
    \/ DestroyTensor

Spec == Init /\ [][Next]_vars

(***************************************************************************)
(* The element-access caller: it holds one tensor of rank 0..AccessRank    *)
(* and at most MaxCells components, which are 1, 2, 3, ... in buffer       *)
(* order, and reads and writes single elements at multi-indices inside the *)
(* shape.                                                                  *)
(***************************************************************************)
AccessShapes ==
    {s \in UNION {[1..r -> 0..MaxDim] : r \in 0..AccessRank} : Prod(s) <= MaxCells}

InitAccess ==
    \E s \in AccessShapes :
        LET A == Filled(EmptyHeap, s, 1)
        IN  /\ heap = A.m
            /\ pool = <<A.t>>
            /\ last = NoCall
            /\ left = MaxAccess

NextAccess == SetValue \/ GetValue

SpecAccess == InitAccess /\ [][NextAccess]_vars

InitTranspose ==
    \E a \in 0..MaxDim, b \in 0..MaxDim :
        \E vals \in [1..a * b -> Scalars] :
            LET A == Build(EmptyHeap, <<a, b>>, vals)
            IN  /\ heap = A.m
                /\ pool = <<A.t>>
                /\ last = NoCall
                /\ left = 2

NextTranspose == Transpose

SpecTranspose == InitTranspose /\ [][NextTranspose]_vars

(***************************************************************************)
(* C9: transpose of a matrix of shape [a, b] returns a matrix of shape     *)
(* [b, a] whose entry (c, r) is the operand's entry (r, c) for all r < a,  *)
(* c < b; the transpose of the transpose of the caller's matrix has the    *)
(* shape and the components of that matrix.                                *)
(***************************************************************************)
C9_TransposeRoundTrip ==
    (last.op = "transpose") =>
        LET M == pool[last.a]
            T == pool[last.res]
            s == ShapeData(last.pre, M)
        IN  /\ T.rank = 2
            /\ ShapeData(heap, T) = <<s[2], s[1]>>
            /\ Len(Components(heap, T)) = s[1] * s[2]
            /\ \A r \in 0..s[1] - 1, c \in 0..s[2] - 1 :
                  get_value(heap, T, <<c, r>>) = get_value(last.pre, M, <<r, c>>)
            /\ ~heap.oob
            /\ (last.a = 2 /\ last.res = 3) =>
                  /\ ShapeData(heap, T) = ShapeData(heap, pool[1])
                  /\ Components(heap, T) = Components(heap, pool[1])

C9_Witness ==
    /\ last.op = "transpose"
    /\ last.a = 2
    /\ last.res = 3
    /\ ShapeData(heap, pool[1]) = <<1, MaxDim>>
    /\ ShapeData(heap, pool[2]) = <<MaxDim, 1>>
    /\ Components(heap, pool[3])[1] # Components(heap, pool[3])[MaxDim]

(***************************************************************************)
(* The inverting caller: as the demo program does, it builds an identity   *)
(* matrix, overwrites at most MaxSets of its entries with set_value, and   *)
(* then makes two calls to determinant or inverse on the matrices it       *)
(* holds, keeping every result.                                            *)
(***************************************************************************)
Overwrites(n) ==
    UNION {[1..k -> Indices(<<n, n>>) \X SetValues] : k \in 0..MaxSets}

\* the machine state after the first k of the caller's set_value calls
RECURSIVE SetAll(_, _, _, _)
SetAll(m, t, ws, k) ==
    IF k = 0 THEN m
    ELSE Then(SetAll(m, t, ws, k - 1), LAMBDA pm :
             set_value(pm, t, ws[k][2], ws[k][1]))

InitInverse ==
    \E n \in 1..MaxN :
        \E ws \in Overwrites(n) :
            LET I == create_indentity(EmptyHeap, n)
            IN  /\ heap = SetAll(I.m, I.t, ws, Len(ws))
                /\ pool = <<I.t>>
                /\ last = NoCall
                /\ left = 2

NextInverse == Determinant \/ Inverse

SpecInverse == InitInverse /\ [][NextInverse]_vars

\* the operand of the latest call, as it was when the call was made
IsIdentityOperand ==
    LET s == ShapeData(last.pre, pool[last.a])
    IN  /\ s[1] = s[2]
        /\ s[1] >= 1
        /\ \A r \in 0..s[1] - 1, c \in 0..s[1] - 1 :
              get_value(last.pre, pool[last.a], <<r, c>>) = (IF r = c THEN One ELSE Zero)

(***************************************************************************)
(* C3: determinant of the n x n identity matrix is 1 for every n >= 1,     *)
(* n = 1 and n = 2 included.                                               *)
(***************************************************************************)
C3_IdentityDeterminant ==
    (last.op = "determinant" /\ IsIdentityOperand) => last.ret = One

(***************************************************************************)
(* C1: for a square matrix M whose determinant is not zero, inverse(M)     *)
(* returns a matrix of the shape of M with                                 *)
(* determinant(M) * get_value(inverse(M), r, c)                            *)
(*     = get_value(adjugate_matrix(M), r, c)   at every position (r, c).   *)
(***************************************************************************)
C1_InverseIsScaledAdjugate ==
    (last.op = "inverse") =>
        LET M   == pool[last.a]
            s   == ShapeData(last.pre, M)
            det == determinant(last.pre, M).v
            adj == adjugate_matrix(last.pre, M)
            inv == pool[last.res]
        IN  (IsFinite(det) /\ det # Zero) =>
                /\ ShapeData(heap, inv) = s
                /\ \A r \in 0..s[1] - 1, c \in 0..s[2] - 1 :
                      RMul(det, get_value(heap, inv, <<r, c>>))
                          = get_value(adj.m, adj.t, <<r, c>>)

(***************************************************************************)
(* C2: for a square matrix M whose determinant is not zero,                *)
(* inverse(inverse(M)) has the shape of M and the entry of M at every      *)
(* position.                                                               *)
(***************************************************************************)
C2_InverseRoundTrip ==
    (last.op = "inverse" /\ last.a = 2 /\ last.res = 3) =>
        LET det == determinant(heap, pool[1]).v
        IN  (IsFinite(det) /\ det # Zero) =>
                /\ ShapeData(heap, pool[3]) = ShapeData(heap, pool[1])
                /\ Components(heap, pool[3]) = Components(heap, pool[1])


(***************************************************************************)
(* The determinant caller: it holds one integer-valued matrix and makes    *)
(* one call to determinant.  The matrix is square of                       *)
(* size 2..DetN and is a permutation matrix, or the dense matrix with      *)
(* entry (r, c) = (r + 1)^c after at most DetSets overwrites or with one   *)
(* row or column set to zero; or it is a dense non-square matrix.          *)
(***************************************************************************)
\* the components, in buffer order (offset r + c * rows), of the matrix
\* with entry (r, c) = (r + 1)^c
Dense(rows, cols) ==
    [p \in 1..rows * cols |->
        FromInt(Prod([j \in 1..((p - 1) \div rows) |-> ((p - 1) % rows) + 1]))]

Perms(n) ==
    {f \in [0..n - 1 -> 0..n - 1] : \A i, j \in 0..n - 1 : f[i] = f[j] => i = j}

\* the components of the matrix with entry (r, f[r]) = 1 and 0 elsewhere
PermutationMatrix(n, f) ==
    [p \in 1..n * n |-> IF f[(p - 1) % n] = (p - 1) \div n THEN One ELSE Zero]

\* vals with row i (byRow) or column i of the n x n matrix set to zero
ZeroLine(n, vals, byRow, i) ==
    [p \in 1..n * n |->
        IF (byRow /\ (p - 1) % n = i) \/ (~byRow /\ (p - 1) \div n = i)
        THEN Zero ELSE vals[p]]

\* the overwrites go to distinct entries, in buffer order
DetOverwrites(n) ==
    {ws \in UNION {[1..k -> Indices(<<n, n>>) \X SetValues] : k \in 0..DetSets} :
        \A i \in 1..Len(ws) - 1 :
            ws[i][1][1] + n * ws[i][1][2] < ws[i + 1][1][1] + n * ws[i + 1][1][2]}

DetStart(A, m) ==
    /\ heap = m
    /\ pool = <<A.t>>
    /\ last = NoCall
    /\ left = 1

InitDeterminant ==
    \/ \E n \in 2..DetN : \E f \in Perms(n) :
           LET A == Build(EmptyHeap, <<n, n>>, PermutationMatrix(n, f))
           IN  DetStart(A, A.m)
    \/ \E n \in 2..DetN : \E ws \in DetOverwrites(n) :
           LET A == Build(EmptyHeap, <<n, n>>, Dense(n, n))
           IN  DetStart(A, SetAll(A.m, A.t, ws, Len(ws)))
    \/ \E n \in 2..DetN : \E i \in 0..n - 1, byRow \in BOOLEAN :
           LET A == Build(EmptyHeap, <<n, n>>, ZeroLine(n, Dense(n, n), byRow, i))
           IN  DetStart(A, A.m)
    \/ \E a \in 0..DetN, b \in 0..DetN :
           /\ a # b
           /\ LET A == Build(EmptyHeap, <<a, b>>, Dense(a, b))
              IN  DetStart(A, A.m)

NextDeterminant == Determinant

SpecDeterminant == InitDeterminant /\ [][NextDeterminant]_vars

\* the same caller asking for one minor or cofactor of its matrix
NextMinor == Minor \/ Cofactor

SpecMinor == InitDeterminant /\ [][NextMinor]_vars

(***************************************************************************)
(* C11: for an n x n matrix with n >= 2, minor(matrix, row, col) is the    *)
(* determinant (the sum over permutations) of the (n-1) x (n-1) matrix of  *)
(* the entries get_value(matrix, r, c) with r # row and c # col, and       *)
(* cofactor(matrix, row, col) is (-1)^(row+col) times that value; for      *)
(* n = 2 the minor is the one remaining entry.                             *)
(***************************************************************************)
C11_MinorAndCofactor ==
    (last.op \in {"minor", "cofactor"}) =>
        LET M    == pool[last.a]
            n    == ShapeData(last.pre, M)[1]
            row  == last.idx[1]
            col  == last.idx[2]
            \* the k-th remaining row and column, k in 0..n-2
            Row(k) == IF k < row THEN k ELSE k + 1
            Col(k) == IF k < col THEN k ELSE k + 1
            E(r, c) == get_value(last.pre, M, <<Row(r), Col(c)>>).n
            Sg(c, used) == IF Cardinality({u \in used : u > c}) % 2 = 0 THEN 1 ELSE -1
            RECURSIVE Lz(_, _, _)
            Lz(r, used, c) ==
                IF r = n - 1 THEN 1
                ELSE IF c = n - 1 THEN 0
                ELSE (IF c \in used THEN 0
                      ELSE Sg(c, used) * E(r, c) * Lz(r + 1, used \cup {c}, 0))
                     + Lz(r, used, c + 1)
            sub  == Lz(0, {}, 0)
        IN  n >= 2 =>
                /\ last.op = "minor" => last.ret = FromInt(sub)
                /\ last.op = "cofactor" =>
                      last.ret = FromInt((IF (row + col) % 2 = 0 THEN 1 ELSE -1) * sub)
                /\ n = 2 => (last.op = "minor" =>
                                last.ret = get_value(last.pre, M, <<1 - row, 1 - col>>))

(***************************************************************************)
(* C12: for a square integer-valued matrix of size n >= 2, determinant     *)
(* returns the sum over all permutations p of sgn(p) times the product of  *)
(* the entries get_value(matrix, r, p(r)), which is ad - bc for n = 2; it  *)
(* returns 0 when a row or a column of the matrix is all zero, and 0 for   *)
(* every non-square matrix.                                                *)
(***************************************************************************)
C12_DeterminantLeibniz ==
    (last.op = "determinant") =>
        LET M    == pool[last.a]
            s    == ShapeData(last.pre, M)
            n    == s[1]
            E(r, c) == get_value(last.pre, M, <<r, c>>).n
            Sg(c, used) == IF Cardinality({u \in used : u > c}) % 2 = 0 THEN 1 ELSE -1
            RECURSIVE Lz(_, _, _)
            Lz(r, used, c) ==
                IF r = n THEN 1
                ELSE IF c = n THEN 0
                ELSE (IF c \in used THEN 0
                      ELSE Sg(c, used) * E(r, c) * Lz(r + 1, used \cup {c}, 0))
                     + Lz(r, used, c + 1)
            zeroLine == \E i \in 0..n - 1 :
                            \/ \A c \in 0..n - 1 : E(i, c) = 0
                            \/ \A r \in 0..n - 1 : E(r, i) = 0
        IN  /\ s[1] # s[2] => last.ret = Zero
            /\ (s[1] = s[2] /\ n >= 2) =>
                  /\ last.ret = FromInt(Lz(0, {}, 0))
                  /\ zeroLine => last.ret = Zero
                  /\ n = 2 => last.ret = FromInt(E(0, 0) * E(1, 1) - E(1, 0) * E(0, 1))

C12_Witness ==
    /\ last.op = "determinant"
    /\ ShapeData(last.pre, pool[last.a]) = <<DetN, DetN>>
    /\ \A p \in 1..DetN * DetN : Components(last.pre, pool[last.a])[p] # Zero
    /\ last.ret \notin {Zero, One, FromInt(-1)}

(***************************************************************************)
(* C13: for matrices lhs, rhs with lhs.shape[1] = rhs.shape[0], square or  *)
(* not, every component matmul reads from lhs and rhs and every component  *)
(* it writes to the result lies inside the buffer accessed: no call to     *)
(* matmul reads or writes out of bounds.                                   *)
(***************************************************************************)
C13_MatMulInBounds ==
    (last.op = "matmul") => ~heap.oob

====
